---------------------------- MODULE Spec2Model ----------------------------
(***************************************************************************)
(* Model of tosa (NaotoKubota/Tosa): junction read counting from the       *)
(* CIGAR strings of a BAM file, in bulk and in single-cell mode.           *)
(*                                                                         *)
(* Strings that the program orders or formats are sequences of byte codes, *)
(* so that format! and sorted() are computed as the program computes them. *)
(* An Option<T> is a sequence of length 0 (None) or 1 (Some).              *)
(***************************************************************************)
EXTENDS Integers, Sequences, FiniteSets, TLC

VARIABLES
    mode,                       \* "bulk" or "single" (main.rs:109)
    cell_barcode_file,          \* Option: is -c given (main.rs:112)
    cell_barcodes_of_interest,  \* allow-list loaded from the file (main.rs:138)
    junction_counts,            \* key -> (barcode -> count) (main.rs:173)
    junction_totals,            \* key -> count (main.rs:174)
    cell_barcodes,              \* set of barcodes (main.rs:175)
    read_count,                 \* records read so far (main.rs:178)
    supported_junctions,        \* set of keys (main.rs:182)
    buffered_reads,             \* key -> sequence of <<Option barcode, pos>> (main.rs:183)
    processed_reads,            \* key -> set of read names (main.rs:186)
    record,                     \* Option: the record the loop body last ran on (main.rs:190)
    current_pos,                \* running position at the end of that record's walk (main.rs:202)
    output,                     \* run -> Option of the files that run wrote (main.rs:332-397)
    call,                       \* Option: arguments of the last direct call of process_junction
    buffered_names,             \* history: key -> the read names of the entries of buffered_reads[key]
    contribution,               \* history: <<key, read name>> -> what the read has added to the counts of key
    streams,                    \* history: chromosome -> the records of that chromosome read so far, in order
    left_counts,                \* intron key -> (barcode -> count) (boundary.rs:9)
    right_counts,               \* intron key -> (barcode -> count) (boundary.rs:10)
    left_totals,                \* intron key -> count (boundary.rs:11)
    right_totals,               \* intron key -> count (boundary.rs:12)
    processed_boundary_reads,   \* chromosome -> set of read names (boundary.rs:13)
    boundary_calls              \* number of calls of count_exon_intron_boundaries made

vars == <<mode, cell_barcode_file, cell_barcodes_of_interest, junction_counts,
          junction_totals, cell_barcodes, read_count, supported_junctions,
          buffered_reads, processed_reads, record, current_pos, output, call,
          buffered_names, contribution, streams, left_counts, right_counts,
          left_totals, right_totals, processed_boundary_reads, boundary_calls>>

\* The state of count_exon_intron_boundaries.
boundaryVars ==
    <<left_counts, right_counts, left_totals, right_totals, processed_boundary_reads,
      boundary_calls>>

-----------------------------------------------------------------------------
(* Bounds of the model *)

\* Records in the BAM file.
MaxRecords == 3

\* Runs of the program over the same BAM file that are compared.
MaxRuns == 2

\* Calls of count_exon_intron_boundaries in one behaviour.
MaxCalls == 3

-----------------------------------------------------------------------------
(* Option and map helpers *)

None == <<>>

Some(x) == <<x>>

EmptyMap == [k \in {} |-> 0]

\* HashMap::insert / entry().or_insert(): m with key k bound to v.
MapPut(m, k, v) == [x \in DOMAIN m \cup {k} |-> IF x = k THEN v ELSE m[x]]

\* HashMap::remove.
MapRemove(m, k) == [x \in DOMAIN m \ {k} |-> m[x]]

\* *entry(k).or_insert(0) += 1
MapIncr(m, k) == MapPut(m, k, (IF k \in DOMAIN m THEN m[k] ELSE 0) + 1)

-----------------------------------------------------------------------------
(* Strings as byte sequences; format!("{}:{}-{}") *)

RECURSIVE Digits(_)
\* Display of a non-negative integer: its decimal digits, as byte codes.
Digits(n) == IF n < 10 THEN <<48 + n>> ELSE Digits(n \div 10) \o <<48 + (n % 10)>>

\* format!("{}:{}-{}", ref_name, start, end)
FormatJunction(ref_name, start, end) ==
    ref_name \o <<58>> \o Digits(start) \o <<45>> \o Digits(end)

RECURSIVE StrLess(_, _)
\* Ord for String: lexicographic on bytes, a proper prefix first.
StrLess(a, b) ==
    IF Len(b) = 0 THEN FALSE
    ELSE IF Len(a) = 0 THEN TRUE
    ELSE IF a[1] # b[1] THEN a[1] < b[1]
    ELSE StrLess(Tail(a), Tail(b))

RECURSIVE Sorted(_)
\* iter().sorted() over a set of distinct strings.
Sorted(S) ==
    IF S = {} THEN <<>>
    ELSE LET m == CHOOSE x \in S : \A y \in S \ {x} : StrLess(x, y)
         IN <<m>> \o Sorted(S \ {m})

\* Index of x in the sequence s, 0-based (enumerate()).
IndexOf(s, x) == (CHOOSE i \in 1..Len(s) : s[i] = x) - 1

-----------------------------------------------------------------------------
(* Configuration: the command line defaults (main.rs:83-100) *)

min_anchor_length == 8

min_intron_length == 70

max_intron_length == 500000

-----------------------------------------------------------------------------
(* process_junction (main.rs:13-47, junction.rs:4-38) *)

\* The maps the junction engine threads through one record, as one value.
TableOf(jc, jt, cbs, sj, br, pr, pos) ==
    [junction_counts |-> jc, junction_totals |-> jt, cell_barcodes |-> cbs,
     supported_junctions |-> sj, buffered_reads |-> br, processed_reads |-> pr,
     current_pos |-> pos]

\* processed_reads.get(junction_coords), an empty set when the key is absent.
ReadsOf(pr, junction_coords) ==
    IF junction_coords \in DOMAIN pr THEN pr[junction_coords] ELSE {}

\* junction_counts.get(junction_coords), an empty map when the key is absent.
CellCountsOf(jc, junction_coords) ==
    IF junction_coords \in DOMAIN jc THEN jc[junction_coords] ELSE EmptyMap

\* Mutation of process_junction: the processed set is not consulted.
process_junction_NoDedup(st, junction_coords, cell_barcode, read_name, md) ==
    LET st1 == [st EXCEPT !.processed_reads =
                    MapPut(@, junction_coords, ReadsOf(@, junction_coords) \cup {read_name})]
    IN  IF md = "single"
        THEN IF cell_barcode # None
             THEN [st1 EXCEPT !.junction_counts =
                       MapPut(@, junction_coords,
                              MapIncr(CellCountsOf(@, junction_coords), cell_barcode[1]))]
             ELSE st1
        ELSE [st1 EXCEPT !.junction_totals = MapIncr(@, junction_coords)]

process_junction(st, junction_coords, cell_barcode, read_name, md) ==
    IF read_name \in ReadsOf(st.processed_reads, junction_coords)
    THEN st
    ELSE LET st1 == [st EXCEPT !.processed_reads =
                         MapPut(@, junction_coords, ReadsOf(@, junction_coords) \cup {read_name})]
         IN  IF md = "single"
             THEN IF cell_barcode # None
                  THEN [st1 EXCEPT !.junction_counts =
                            MapPut(@, junction_coords,
                                   MapIncr(CellCountsOf(@, junction_coords), cell_barcode[1]))]
                  ELSE st1
             ELSE [st1 EXCEPT !.junction_totals = MapIncr(@, junction_coords)]

-----------------------------------------------------------------------------
(* count_exon_intron_boundaries (boundary.rs:3-63) *)

\* The maps count_exon_intron_boundaries borrows mutably, as one value.
BoundaryOf(lc, rc, lt, rt, pbr) ==
    [left_counts |-> lc, right_counts |-> rc, left_totals |-> lt,
     right_totals |-> rt, processed_boundary_reads |-> pbr]

\* processed_boundary_reads.get(chrom), an empty set when the key is absent.
BoundaryReadsOf(pbr, chrom) ==
    IF chrom \in DOMAIN pbr THEN pbr[chrom] ELSE {}

\* Mutation of Straddles: the interval ends are excluded.
Straddles_Strict(start, end, point) ==
    start < point /\ end > point

\* boundary.rs:34, 40, 53, 56: start <= point && end >= point
Straddles(start, end, point) ==
    start <= point /\ end >= point

\* boundary.rs:31-46 and 51-59: the body of the loop for one intron.
CountIntron(bt, cell_barcode, intron, chrom, start, end, md) ==
    LET key == FormatJunction(intron[1], intron[2], intron[3])
        left == Straddles(start, end, intron[2])
        right == Straddles(start, end, intron[3])
    IN  IF chrom # intron[1] THEN bt
        ELSE IF md = "single"
        THEN LET bl == IF left
                       THEN [bt EXCEPT !.left_counts =
                                MapPut(@, key, MapIncr(CellCountsOf(@, key), cell_barcode[1]))]
                       ELSE bt
             IN  IF right
                 THEN [bl EXCEPT !.right_counts =
                          MapPut(@, key, MapIncr(CellCountsOf(@, key), cell_barcode[1]))]
                 ELSE bl
        ELSE LET bl == IF left THEN [bt EXCEPT !.left_totals = MapIncr(@, key)] ELSE bt
             IN  IF right THEN [bl EXCEPT !.right_totals = MapIncr(@, key)] ELSE bl

RECURSIVE CountIntrons(_, _, _, _, _, _, _)
\* boundary.rs:31, 51: for (intron_chrom, intron_start, intron_end) in introns.
\* The iterations add to different keys or add one to the same entry, so the
\* order in which the HashSet yields the introns does not show in the result.
CountIntrons(bt, cell_barcode, introns, chrom, start, end, md) ==
    IF introns = {} THEN bt
    ELSE LET intron == CHOOSE x \in introns : TRUE
         IN  CountIntrons(CountIntron(bt, cell_barcode, intron, chrom, start, end, md),
                          cell_barcode, introns \ {intron}, chrom, start, end, md)

\* Mutation of count_exon_intron_boundaries: a read name seen on any
\* chromosome is skipped.
count_exon_intron_boundaries_AnyChrom(bt, cell_barcode, introns, chrom, start, end, read_name, md) ==
    IF \E c \in DOMAIN bt.processed_boundary_reads :
           read_name \in bt.processed_boundary_reads[c]
    THEN bt
    ELSE LET bt1 == [bt EXCEPT !.processed_boundary_reads =
                         MapPut(@, chrom, BoundaryReadsOf(@, chrom) \cup {read_name})]
         IN  IF md = "single" /\ cell_barcode = None
             THEN bt1
             ELSE CountIntrons(bt1, cell_barcode, introns, chrom, start, end, md)

count_exon_intron_boundaries(bt, cell_barcode, introns, chrom, start, end, read_name, md) ==
    IF read_name \in BoundaryReadsOf(bt.processed_boundary_reads, chrom)
    THEN bt
    ELSE LET bt1 == [bt EXCEPT !.processed_boundary_reads =
                         MapPut(@, chrom, BoundaryReadsOf(@, chrom) \cup {read_name})]
         IN  IF md = "single" /\ cell_barcode = None
             THEN bt1
             ELSE CountIntrons(bt1, cell_barcode, introns, chrom, start, end, md)

-----------------------------------------------------------------------------
(* The CIGAR walk of one record (main.rs:227-326) *)

AnchorOps == {"Match", "Equal", "Diff"}

RECURSIVE LeftAnchorWalk_StopAtRefSkip(_, _, _)
\* Mutation of LeftAnchorWalk: a RefSkip ends the walk.
LeftAnchorWalk_StopAtRefSkip(cigars, j, acc) ==
    IF j <= 1 THEN acc
    ELSE LET c == cigars[j - 1]
         IN  IF c.op \in AnchorOps
             THEN IF acc + c.len >= min_anchor_length THEN acc + c.len
                  ELSE LeftAnchorWalk_StopAtRefSkip(cigars, j - 1, acc + c.len)
             ELSE acc

RECURSIVE LeftAnchorWalk(_, _, _)
\* main.rs:243-257: j is the index of the element last looked at; the walk goes
\* to the element before it, until the front of the list.
LeftAnchorWalk(cigars, j, acc) ==
    IF j <= 1 THEN acc
    ELSE LET c == cigars[j - 1]
         IN  IF c.op \in AnchorOps
             THEN IF acc + c.len >= min_anchor_length THEN acc + c.len
                  ELSE LeftAnchorWalk(cigars, j - 1, acc + c.len)
             ELSE IF c.op = "RefSkip" THEN LeftAnchorWalk(cigars, j - 1, acc)
             ELSE acc

RECURSIVE RightAnchorWalk(_, _, _)
\* main.rs:261-275: k is the index of the element to look at.
RightAnchorWalk(cigars, k, acc) ==
    IF k > Len(cigars) THEN acc
    ELSE LET c == cigars[k]
         IN  IF c.op \in AnchorOps
             THEN IF acc + c.len >= min_anchor_length THEN acc + c.len
                  ELSE RightAnchorWalk(cigars, k + 1, acc + c.len)
             ELSE IF c.op = "RefSkip" THEN RightAnchorWalk(cigars, k + 1, acc)
             ELSE acc

\* main.rs:258
has_left_anchor(cigars, i) == LeftAnchorWalk(cigars, i, 0) >= min_anchor_length

\* main.rs:276
has_right_anchor(cigars, i) == RightAnchorWalk(cigars, i + 1, 0) >= min_anchor_length

RECURSIVE FlushBuffered(_, _, _, _, _)
\* main.rs:286-296: process_junction for every buffered entry, in order, with
\* the barcode of the entry and the read name of the record at hand.
FlushBuffered(st, junction_coords, buffered, read_name, md) ==
    IF buffered = <<>> THEN st
    ELSE FlushBuffered(
             process_junction(st, junction_coords, buffered[1][1], read_name, md),
             junction_coords, Tail(buffered), read_name, md)

\* Mutation of MarkSupported: the buffer is flushed and stays in buffered_reads.
MarkSupported_KeepBuffer(st, junction_coords, read_name, md) ==
    LET s == [st EXCEPT !.supported_junctions = @ \cup {junction_coords}]
    IN  IF junction_coords \in DOMAIN s.buffered_reads
        THEN FlushBuffered(s, junction_coords, s.buffered_reads[junction_coords],
                           read_name, md)
        ELSE s

\* main.rs:282-298: a candidate with both anchors marks the junction supported
\* and takes its buffer out of buffered_reads.
MarkSupported(st, junction_coords, read_name, md) ==
    LET s == [st EXCEPT !.supported_junctions = @ \cup {junction_coords}]
    IN  IF junction_coords \in DOMAIN s.buffered_reads
        THEN FlushBuffered([s EXCEPT !.buffered_reads = MapRemove(@, junction_coords)],
                           junction_coords, s.buffered_reads[junction_coords],
                           read_name, md)
        ELSE s

\* Mutation of ProcessOrBuffer: the read is counted whether or not the junction
\* is supported.
ProcessOrBuffer_AlwaysCount(st, junction_coords, cell_barcode, read_name, md) ==
    process_junction(st, junction_coords, cell_barcode, read_name, md)

\* Mutation of ProcessOrBuffer: the read is put at the front of the buffer.
ProcessOrBuffer_PushFront(st, junction_coords, cell_barcode, read_name, md) ==
    IF junction_coords \in st.supported_junctions
    THEN process_junction(st, junction_coords, cell_barcode, read_name, md)
    ELSE [st EXCEPT !.buffered_reads =
              MapPut(@, junction_coords,
                     <<<<cell_barcode, st.current_pos>>>> \o
                     (IF junction_coords \in DOMAIN @ THEN @[junction_coords]
                      ELSE <<>>))]

\* Mutation of ProcessOrBuffer: the read is buffered as well as counted.
ProcessOrBuffer_AlsoBuffer(st, junction_coords, cell_barcode, read_name, md) ==
    LET s == [st EXCEPT !.buffered_reads =
                  MapPut(@, junction_coords,
                         Append(IF junction_coords \in DOMAIN @ THEN @[junction_coords]
                                ELSE <<>>,
                                <<cell_barcode, st.current_pos>>))]
    IN  IF junction_coords \in st.supported_junctions
        THEN process_junction(s, junction_coords, cell_barcode, read_name, md)
        ELSE s

\* main.rs:300-316
ProcessOrBuffer(st, junction_coords, cell_barcode, read_name, md) ==
    IF junction_coords \in st.supported_junctions
    THEN process_junction(st, junction_coords, cell_barcode, read_name, md)
    ELSE [st EXCEPT !.buffered_reads =
              MapPut(@, junction_coords,
                     Append(IF junction_coords \in DOMAIN @ THEN @[junction_coords]
                            ELSE <<>>,
                            <<cell_barcode, st.current_pos>>))]

\* Mutation of JunctionCoords: the key leaves the chromosome out.
JunctionCoords_NoChrom(ref_name, pos, intron_length) ==
    FormatJunction(<<>>, pos, pos + intron_length + 1)

\* main.rs:278-280
JunctionCoords(ref_name, pos, intron_length) ==
    FormatJunction(ref_name, pos, pos + intron_length + 1)

\* Mutation of RefSkipStep: the position moves past the displayed end.
RefSkipStep_PlusOne(st, rec, cell_barcode, i, md) ==
    LET intron_length == rec.cigar[i].len
        key == JunctionCoords(rec.ref_name, st.current_pos, intron_length)
    IN  IF intron_length < min_intron_length \/ intron_length > max_intron_length
        THEN [st EXCEPT !.current_pos = @ + intron_length + 1]
        ELSE LET s1 == IF has_left_anchor(rec.cigar, i) /\ has_right_anchor(rec.cigar, i)
                       THEN MarkSupported(st, key, rec.qname, md)
                       ELSE st
                 s2 == ProcessOrBuffer(s1, key, cell_barcode, rec.qname, md)
             IN  [s2 EXCEPT !.current_pos = @ + intron_length + 1]

\* Mutation of RefSkipStep: the intron length bounds are exclusive.
RefSkipStep_Exclusive(st, rec, cell_barcode, i, md) ==
    LET intron_length == rec.cigar[i].len
        key == JunctionCoords(rec.ref_name, st.current_pos, intron_length)
    IN  IF intron_length <= min_intron_length \/ intron_length >= max_intron_length
        THEN [st EXCEPT !.current_pos = @ + intron_length]
        ELSE LET s1 == IF has_left_anchor(rec.cigar, i) /\ has_right_anchor(rec.cigar, i)
                       THEN MarkSupported(st, key, rec.qname, md)
                       ELSE st
                 s2 == ProcessOrBuffer(s1, key, cell_barcode, rec.qname, md)
             IN  [s2 EXCEPT !.current_pos = @ + intron_length]

\* main.rs:230-317: the RefSkip at index i.
RefSkipStep(st, rec, cell_barcode, i, md) ==
    LET intron_length == rec.cigar[i].len
        key == JunctionCoords(rec.ref_name, st.current_pos, intron_length)
    IN  IF intron_length < min_intron_length \/ intron_length > max_intron_length
        THEN [st EXCEPT !.current_pos = @ + intron_length]
        ELSE LET s1 == IF has_left_anchor(rec.cigar, i) /\ has_right_anchor(rec.cigar, i)
                       THEN MarkSupported(st, key, rec.qname, md)
                       ELSE st
                 s2 == ProcessOrBuffer(s1, key, cell_barcode, rec.qname, md)
             IN  [s2 EXCEPT !.current_pos = @ + intron_length]

\* main.rs:318-325: SoftClip is passed over; Match, Ins and Del move the
\* position; every other operation moves it by 0.
OtherStep(st, c) ==
    IF c.op = "SoftClip" THEN st
    ELSE [st EXCEPT !.current_pos =
              @ + (IF c.op \in {"Match", "Ins", "Del"} THEN c.len ELSE 0)]

RECURSIVE WalkCigar(_, _, _, _, _)
\* main.rs:229-326: for i in 0..cigars.len()
WalkCigar(st, rec, cell_barcode, i, md) ==
    IF i > Len(rec.cigar) THEN st
    ELSE WalkCigar(IF rec.cigar[i].op = "RefSkip"
                   THEN RefSkipStep(st, rec, cell_barcode, i, md)
                   ELSE OtherStep(st, rec.cigar[i]),
                   rec, cell_barcode, i + 1, md)

\* main.rs:205-212: the CB tag is read in single mode only.
CellBarcodeOf(rec, md) == IF md = "single" THEN rec.cb ELSE None

\* Mutation of NotOfInterest: no record is skipped.
NotOfInterest_Never(cell_barcode, file, interest) == FALSE

\* main.rs:215-219: the record is skipped when its barcode is not of interest.
NotOfInterest(cell_barcode, file, interest) ==
    /\ cell_barcode # None
    /\ file # None
    /\ interest # {}
    /\ cell_barcode[1] \notin interest

\* Mutation of InsertBarcode: the barcode set is left alone.
InsertBarcode_Skip(st, cell_barcode) == st

\* main.rs:223-225
InsertBarcode(st, cell_barcode) ==
    IF cell_barcode # None
    THEN [st EXCEPT !.cell_barcodes = @ \cup {cell_barcode[1]}]
    ELSE st

\* Mutation of ProcessRecord: a record without a barcode is walked as well.
ProcessRecord_WalkWithoutBarcode(st, rec, md, file, interest) ==
    LET cell_barcode == CellBarcodeOf(rec, md)
        st0 == [st EXCEPT !.current_pos = rec.pos]
    IN  IF NotOfInterest(cell_barcode, file, interest) THEN st0
        ELSE WalkCigar(InsertBarcode(st0, cell_barcode), rec, cell_barcode, 1, md)

\* Mutation of ProcessRecord: the barcode joins the barcode set only when the
\* record has changed a count.
ProcessRecord_InsertIfCounted(st, rec, md, file, interest) ==
    LET cell_barcode == CellBarcodeOf(rec, md)
        st0 == [st EXCEPT !.current_pos = rec.pos]
        walked == WalkCigar(st0, rec, cell_barcode, 1, md)
    IN  IF NotOfInterest(cell_barcode, file, interest) THEN st0
        ELSE IF md = "bulk" \/ cell_barcode # None
             THEN IF walked.junction_counts # st.junction_counts
                  THEN InsertBarcode(walked, cell_barcode)
                  ELSE walked
             ELSE st0

\* main.rs:200-327: the body of the loop over the records, for one record.
ProcessRecord(st, rec, md, file, interest) ==
    LET cell_barcode == CellBarcodeOf(rec, md)
        st0 == [st EXCEPT !.current_pos = rec.pos]
    IN  IF NotOfInterest(cell_barcode, file, interest) THEN st0
        ELSE IF md = "bulk" \/ cell_barcode # None
             THEN WalkCigar(InsertBarcode(st0, cell_barcode), rec, cell_barcode, 1, md)
             ELSE st0

-----------------------------------------------------------------------------
(* Candidates of a record, and the history of who was buffered and counted *)

RECURSIVE SumCounts(_, _)
\* The sum of the values of the map m over the keys ks.
SumCounts(m, ks) ==
    IF ks = {} THEN 0
    ELSE LET k == CHOOSE x \in ks : TRUE
         IN  m[k] + SumCounts(m, ks \ {k})

\* The count of a key in the count table: its bulk total, or the sum of its
\* per-barcode counts (the table of the other mode stays empty).
TotalOf(jc, jt, junction_coords) ==
    (IF junction_coords \in DOMAIN jt THEN jt[junction_coords] ELSE 0)
    + SumCounts(CellCountsOf(jc, junction_coords),
                DOMAIN CellCountsOf(jc, junction_coords))

TotalIn(st, junction_coords) ==
    TotalOf(st.junction_counts, st.junction_totals, junction_coords)

\* main.rs:317, 321-324: what an operation adds to the running position.
Advance(c) == IF c.op \in {"Match", "Ins", "Del", "RefSkip"} THEN c.len ELSE 0

RECURSIVE PositionBefore(_, _)
\* The running position when the walk is at index i.
PositionBefore(rec, i) ==
    IF i <= 1 THEN rec.pos ELSE PositionBefore(rec, i - 1) + Advance(rec.cigar[i - 1])

\* main.rs:230-237: the operation at index i is a RefSkip within the bounds.
CandidateAt(rec, i) ==
    /\ rec.cigar[i].op = "RefSkip"
    /\ rec.cigar[i].len >= min_intron_length
    /\ rec.cigar[i].len <= max_intron_length

KeyAt(rec, i) == JunctionCoords(rec.ref_name, PositionBefore(rec, i), rec.cigar[i].len)

BothAnchors(rec, i) == has_left_anchor(rec.cigar, i) /\ has_right_anchor(rec.cigar, i)

\* main.rs:214-222: the record reaches the walk.
Engaged(rec, md, file, interest) ==
    /\ ~NotOfInterest(CellBarcodeOf(rec, md), file, interest)
    /\ md = "bulk" \/ CellBarcodeOf(rec, md) # None

AddCredit(credit, junction_coords, read_name, k) ==
    IF k = 0 THEN credit
    ELSE MapPut(credit, <<junction_coords, read_name>>,
                (IF <<junction_coords, read_name>> \in DOMAIN credit
                 THEN credit[<<junction_coords, read_name>>] ELSE 0) + k)

RECURSIVE CreditFlush(_, _, _, _, _, _, _)
\* The flush of main.rs:286-296 call by call: what each call of
\* process_junction adds to the count is credited to the read that the entry
\* was buffered for.
CreditFlush(st, credit, junction_coords, buffered, origins, read_name, md) ==
    IF buffered = <<>> THEN [st |-> st, credit |-> credit]
    ELSE LET s == process_junction(st, junction_coords, buffered[1][1], read_name, md)
         IN  CreditFlush(s,
                         AddCredit(credit, junction_coords, origins[1],
                                   TotalIn(s, junction_coords) - TotalIn(st, junction_coords)),
                         junction_coords, Tail(buffered), Tail(origins), read_name, md)

\* main.rs:282-316 for the candidate at index i, call by call: the credit of
\* the flushed reads and of the record's own read.
CreditCandidate(st, credit, names, rec, i, md) ==
    LET key == KeyAt(rec, i)
        s0 == IF BothAnchors(rec, i)
              THEN [st EXCEPT !.supported_junctions = @ \cup {key},
                              !.buffered_reads = MapRemove(@, key)]
              ELSE st
        f == IF BothAnchors(rec, i) /\ key \in DOMAIN st.buffered_reads
             THEN CreditFlush(s0, credit, key, st.buffered_reads[key], names[key],
                              rec.qname, md)
             ELSE [st |-> s0, credit |-> credit]
        s2 == IF key \in f.st.supported_junctions
              THEN process_junction(f.st, key, CellBarcodeOf(rec, md), rec.qname, md)
              ELSE f.st
    IN  AddCredit(f.credit, key, rec.qname, TotalIn(s2, key) - TotalIn(f.st, key))

RECURSIVE CreditRecord(_, _, _, _, _, _)
\* The credit after the record: its candidates are at distinct keys, and a
\* candidate reads and writes the entries of its own key only.
CreditRecord(st, credit, names, rec, i, md) ==
    IF i > Len(rec.cigar) THEN credit
    ELSE CreditRecord(st,
                      IF CandidateAt(rec, i)
                      THEN CreditCandidate(st, credit, names, rec, i, md)
                      ELSE credit,
                      names, rec, i + 1, md)

\* The names of the buffered reads after the record: a buffer that grew got
\* the record's read at its end (main.rs:312-315), a buffer that was taken out
\* (main.rs:285) has no names.
NamesAfter(names, before, after, rec) ==
    [key \in DOMAIN after.buffered_reads |->
        IF key \in DOMAIN before.buffered_reads
           /\ after.buffered_reads[key] = before.buffered_reads[key]
        THEN names[key]
        ELSE Append(IF key \in DOMAIN names THEN names[key] ELSE <<>>, rec.qname)]

-----------------------------------------------------------------------------
(* Output (main.rs:330-397) *)

\* All orders in which a HashMap with the keys S can be iterated: Rust seeds
\* the hasher of every HashMap at random, so each run may meet any of them.
IterationOrders(S) ==
    {s \in [1..Cardinality(S) -> S] : \A x \in S : \E i \in DOMAIN s : s[i] = x}

\* One iteration order for the inner map of every feature (main.rs:373).
HashOrders(jc) ==
    {o \in [DOMAIN jc -> UNION {IterationOrders(DOMAIN jc[f]) : f \in DOMAIN jc}] :
        \A f \in DOMAIN jc : o[f] \in IterationOrders(DOMAIN jc[f])}

RECURSIVE NonZeroCount(_, _)
\* main.rs:364: junction_counts.values().map(|c| c.len()).sum()
NonZeroCount(jc, keys) ==
    IF keys = {} THEN 0
    ELSE LET k == CHOOSE x \in keys : TRUE
         IN  Cardinality(DOMAIN jc[k]) + NonZeroCount(jc, keys \ {k})

\* main.rs:369: barcode_map, each barcode to its index in barcode_list plus 1.
BarcodeMap(barcode_list) ==
    [b \in {barcode_list[n] : n \in DOMAIN barcode_list} |->
        IndexOf(barcode_list, b) + 1]

\* main.rs:375: format!("{} {} {}", i + 1, j + 1, count), as its three numbers.
MatrixLine(i, j, count) == <<i + 1, j + 1, count>>

RECURSIVE CellLines(_, _, _, _, _)
\* main.rs:373-378: the lines of one feature, i its 0-based index, bs the
\* barcodes of its inner map in iteration order. Each element is the matrix
\* line and the line of the flat table.
CellLines(i, feature, cell_counts, bs, barcode_map) ==
    IF bs = <<>> THEN <<>>
    ELSE (IF bs[1] \in DOMAIN barcode_map
          THEN << <<MatrixLine(i, barcode_map[bs[1]], cell_counts[bs[1]]),
                    <<feature, bs[1], cell_counts[bs[1]]>> >> >>
          ELSE <<>>)
         \o CellLines(i, feature, cell_counts, Tail(bs), barcode_map)

RECURSIVE FeatureLines(_, _, _, _, _)
\* main.rs:371-380: for (i, feature) in feature_list.iter().enumerate()
FeatureLines(feature_list, n, jc, order, barcode_map) ==
    IF n > Len(feature_list) THEN <<>>
    ELSE (IF feature_list[n] \in DOMAIN jc
          THEN CellLines(n - 1, feature_list[n], jc[feature_list[n]],
                         order[feature_list[n]], barcode_map)
          ELSE <<>>)
         \o FeatureLines(feature_list, n + 1, jc, order, barcode_map)

\* main.rs:341
BarcodeList(cbs) == Sorted(cbs)

\* main.rs:332-388: the four files of single mode. The header lines that are
\* fixed text are left out.
SingleOutput(jc, cbs, order) ==
    LET barcode_list == BarcodeList(cbs)
        feature_list == Sorted(DOMAIN jc)
        lines == FeatureLines(feature_list, 1, jc, order, BarcodeMap(barcode_list))
    IN  [barcodes |-> barcode_list,
         features |-> feature_list,
         header |-> <<Len(feature_list), Len(barcode_list), NonZeroCount(jc, DOMAIN jc)>>,
         matrix |-> [n \in DOMAIN lines |-> lines[n][1]],
         tsv |-> [n \in DOMAIN lines |-> lines[n][2]],
         junction |-> <<>>]

\* main.rs:390-397: junction_totals.iter().sorted(); the keys are distinct, so
\* the order of the (key, count) pairs is the order of the keys.
BulkOutput(jt) ==
    LET keys == Sorted(DOMAIN jt)
    IN  [barcodes |-> <<>>, features |-> <<>>, header |-> <<>>, matrix |-> <<>>,
         tsv |-> <<>>,
         junction |-> [n \in DOMAIN keys |-> <<keys[n], jt[keys[n]]>>]]

-----------------------------------------------------------------------------
(* Inputs *)

chr1 == <<99, 104, 114, 49>>

\* "chr2"
chr2 == <<99, 104, 114, 50>>

CB1 == <<67, 66, 49>>

CB2 == <<67, 66, 50>>

Op(kind, n) == [op |-> kind, len |-> n]

\* The reads of the file: a read name, the CB tag of the read (None: the tag
\* is missing or is no string) and its NH tag, the number of loci the read
\* maps to (None: the tag is missing).
Reads ==
    { [qname |-> "R1", cb |-> Some(CB1), nh |-> Some(1)],
      [qname |-> "R2", cb |-> Some(CB2), nh |-> None],
      [qname |-> "R3", cb |-> Some(CB1), nh |-> Some(2)],
      [qname |-> "R4", cb |-> None, nh |-> Some(1)] }

\* Alignments of the reads: chr1:150-231 with both anchors and with a short
\* left anchor, chr1:100-181 with both anchors, an intron below
\* min_intron_length, and an alignment without a ReferenceSkip.
Alignments ==
    { [pos |-> 100, cigar |-> <<Op("Match", 50), Op("RefSkip", 80), Op("Match", 50)>>],
      [pos |-> 147, cigar |-> <<Op("Match", 3), Op("RefSkip", 80), Op("Match", 50)>>],
      [pos |-> 50, cigar |-> <<Op("Match", 50), Op("RefSkip", 80), Op("Match", 50)>>],
      [pos |-> 100, cigar |-> <<Op("Match", 50), Op("RefSkip", 30), Op("Match", 50)>>],
      [pos |-> 100, cigar |-> <<Op("Match", 100)>>] }

MakeRecord(read, aln) ==
    [ref_name |-> chr1, pos |-> aln.pos, cigar |-> aln.cigar,
     cb |-> read.cb, qname |-> read.qname, nh |-> read.nh]

Records == {MakeRecord(read, aln) : read \in Reads, aln \in Alignments}

Runs == 1..MaxRuns

-----------------------------------------------------------------------------
(* The program *)

Init ==
    /\ mode \in {"bulk", "single"}
    /\ cell_barcode_file \in {None, Some("barcodes.txt")}
    /\ mode = "bulk" => cell_barcode_file = None
    /\ cell_barcodes_of_interest \in IF cell_barcode_file = None THEN {{}} ELSE {{}, {CB1}}
    /\ junction_counts = EmptyMap
    /\ junction_totals = EmptyMap
    /\ cell_barcodes = {}
    /\ read_count = 0
    /\ supported_junctions = {}
    /\ buffered_reads = EmptyMap
    /\ processed_reads = EmptyMap
    /\ record = None
    /\ current_pos = 0
    /\ output = [r \in Runs |-> None]
    /\ call = None
    /\ buffered_names = EmptyMap
    /\ contribution = EmptyMap
    /\ streams = EmptyMap
    /\ left_counts = EmptyMap
    /\ right_counts = EmptyMap
    /\ left_totals = EmptyMap
    /\ right_totals = EmptyMap
    /\ processed_boundary_reads = EmptyMap
    /\ boundary_calls = 0

Table ==
    TableOf(junction_counts, junction_totals, cell_barcodes, supported_junctions,
            buffered_reads, processed_reads, current_pos)

SetTable(st) ==
    /\ junction_counts' = st.junction_counts
    /\ junction_totals' = st.junction_totals
    /\ cell_barcodes' = st.cell_barcodes
    /\ supported_junctions' = st.supported_junctions
    /\ buffered_reads' = st.buffered_reads
    /\ processed_reads' = st.processed_reads
    /\ current_pos' = st.current_pos

NoOutputYet == \A r \in Runs : output[r] = None

\* main.rs:189-328: one turn of the loop over the records of the file.
ReadRecord(rec) ==
    /\ read_count < MaxRecords
    /\ NoOutputYet
    /\ read_count' = read_count + 1
    /\ record' = Some(rec)
    /\ SetTable(ProcessRecord(Table, rec, mode, cell_barcode_file,
                              cell_barcodes_of_interest))
    /\ buffered_names' =
           NamesAfter(buffered_names, Table,
                      ProcessRecord(Table, rec, mode, cell_barcode_file,
                                    cell_barcodes_of_interest), rec)
    /\ contribution' =
           IF Engaged(rec, mode, cell_barcode_file, cell_barcodes_of_interest)
           THEN CreditRecord(Table, contribution, buffered_names, rec, 1, mode)
           ELSE contribution
    /\ UNCHANGED <<mode, cell_barcode_file, cell_barcodes_of_interest, output, call,
                   streams, boundaryVars>>

\* main.rs:330-397: the end of the file is reached and a run writes its files.
\* Reading the records draws nothing at random, so the runs share the tables;
\* each run has its own hasher seeds.
WriteOutput(r) ==
    /\ output[r] = None
    /\ \E order \in HashOrders(junction_counts) :
          output' = [output EXCEPT ![r] =
                        Some(IF mode = "single"
                             THEN SingleOutput(junction_counts, cell_barcodes, order)
                             ELSE BulkOutput(junction_totals))]
    /\ UNCHANGED <<mode, cell_barcode_file, cell_barcodes_of_interest, junction_counts,
                   junction_totals, cell_barcodes, read_count, supported_junctions,
                   buffered_reads, processed_reads, record, current_pos, call,
                   buffered_names, contribution, streams, boundaryVars>>

Next ==
    \/ \E rec \in Records : ReadRecord(rec)
    \/ \E r \in Runs : WriteOutput(r)

Spec == Init /\ [][Next]_vars

-----------------------------------------------------------------------------
(* The walk on its own: records of one read over a wider set of CIGAR lists *)

WalkAlignments ==
    { [pos |-> 100, cigar |-> <<Op("Match", 50), Op("RefSkip", 80), Op("Match", 50)>>],
      [pos |-> 100, cigar |-> <<Op("Match", 50), Op("RefSkip", 30), Op("Match", 50)>>],
      [pos |-> 100, cigar |-> <<Op("Match", 50), Op("RefSkip", 69), Op("Match", 50)>>],
      [pos |-> 100, cigar |-> <<Op("Match", 50), Op("RefSkip", 70), Op("Match", 50)>>],
      [pos |-> 100, cigar |-> <<Op("Match", 50), Op("RefSkip", 500000), Op("Match", 50)>>],
      [pos |-> 100, cigar |-> <<Op("Match", 50), Op("RefSkip", 500001), Op("Match", 50)>>],
      [pos |-> 100, cigar |-> <<Op("Match", 50), Op("RefSkip", 80)>>],
      [pos |-> 100, cigar |-> <<Op("Match", 50), Op("RefSkip", 80), Op("Match", 20),
                                Op("RefSkip", 90), Op("Match", 50)>>],
      [pos |-> 100, cigar |-> <<Op("Match", 50), Op("RefSkip", 30), Op("Match", 10),
                                Op("RefSkip", 80), Op("Match", 50)>>],
      [pos |-> 100, cigar |-> <<Op("SoftClip", 5), Op("Match", 50), Op("RefSkip", 80),
                                Op("Match", 50), Op("SoftClip", 5)>>],
      [pos |-> 100, cigar |-> <<Op("Match", 20), Op("Ins", 2), Op("Match", 30),
                                Op("Del", 3), Op("RefSkip", 80), Op("Match", 50)>>],
      [pos |-> 100, cigar |-> <<Op("Equal", 50), Op("RefSkip", 80), Op("Diff", 50)>>],
      [pos |-> 100, cigar |-> <<Op("Match", 5), Op("RefSkip", 30), Op("Match", 5),
                                Op("RefSkip", 80), Op("Match", 4), Op("RefSkip", 500001),
                                Op("Match", 4)>>],
      [pos |-> 100, cigar |-> <<Op("Match", 50), Op("Ins", 1), Op("Match", 4),
                                Op("RefSkip", 80), Op("Match", 4), Op("Del", 1),
                                Op("Match", 50)>>],
      [pos |-> 100, cigar |-> <<Op("SoftClip", 50), Op("Match", 4), Op("RefSkip", 80),
                                Op("Match", 4), Op("SoftClip", 50)>>],
      [pos |-> 100, cigar |-> <<Op("RefSkip", 80), Op("Match", 50)>>],
      [pos |-> 100, cigar |-> <<Op("Match", 7), Op("RefSkip", 80), Op("Match", 8)>>],
      [pos |-> 100, cigar |-> <<Op("Match", 8), Op("RefSkip", 80), Op("Match", 7)>>],
      [pos |-> 100, cigar |-> <<Op("Match", 8), Op("RefSkip", 90), Op("Match", 8)>>] }

WalkReads == {[qname |-> "R1", cb |-> Some(CB1), nh |-> Some(1)]}

WalkRecords == {MakeRecord(read, aln) : read \in WalkReads, aln \in WalkAlignments}

NextWalk == \E rec \in WalkRecords : ReadRecord(rec)

SpecWalk == Init /\ [][NextWalk]_vars

-----------------------------------------------------------------------------
(* process_junction on its own: direct calls with arguments of every shape *)

PJKeys == {FormatJunction(chr1, 150, 231), FormatJunction(chr1, 100, 181)}

PJNames == {"R1", "R2"}

PJBarcodes == {None, Some(CB1), Some(CB2)}

\* One call process_junction(junction_coords, cell_barcode, ..., read_name,
\* mode); seen tells whether the pair was in processed_reads before the call.
CallProcessJunction(junction_coords, cell_barcode, read_name) ==
    /\ call' = Some([junction_coords |-> junction_coords,
                     cell_barcode |-> cell_barcode,
                     read_name |-> read_name,
                     seen |-> read_name \in ReadsOf(processed_reads, junction_coords)])
    /\ SetTable(process_junction(Table, junction_coords, cell_barcode, read_name, mode))
    /\ UNCHANGED <<mode, cell_barcode_file, cell_barcodes_of_interest, read_count,
                   record, output, buffered_names, contribution, streams, boundaryVars>>

NextPJ ==
    \E junction_coords \in PJKeys, cell_barcode \in PJBarcodes, read_name \in PJNames :
        CallProcessJunction(junction_coords, cell_barcode, read_name)

SpecPJ == Init /\ [][NextPJ]_vars

-----------------------------------------------------------------------------
(* A caller of count_exon_intron_boundaries *)

\* The known introns (chromosome, start, end) handed to every call.
KnownIntrons == {<<chr1, 150, 230>>, <<chr1, 300, 400>>, <<chr2, 150, 230>>}

Chroms == {chr1, chr2}

\* Alignment intervals <<start, end>>: over the left end of the first intron,
\* over both of its ends, from its right end to the left end of the second
\* intron, strictly between the two, and past every intron.
Intervals == {<<100, 200>>, <<100, 250>>, <<230, 300>>, <<231, 299>>, <<500, 600>>}

BoundaryTable ==
    BoundaryOf(left_counts, right_counts, left_totals, right_totals,
               processed_boundary_reads)

SetBoundaryTable(bt) ==
    /\ left_counts' = bt.left_counts
    /\ right_counts' = bt.right_counts
    /\ left_totals' = bt.left_totals
    /\ right_totals' = bt.right_totals
    /\ processed_boundary_reads' = bt.processed_boundary_reads

\* One call count_exon_intron_boundaries(cell_barcode, introns, chrom, start,
\* end, ..., read_name, mode); seen tells whether the read name was in
\* processed_boundary_reads[chrom] before the call.
CallBoundary(cell_barcode, chrom, start, end, read_name) ==
    /\ boundary_calls < MaxCalls
    /\ boundary_calls' = boundary_calls + 1
    /\ call' = Some([chrom |-> chrom, start |-> start, end |-> end,
                     cell_barcode |-> cell_barcode, read_name |-> read_name,
                     seen |-> read_name \in BoundaryReadsOf(processed_boundary_reads, chrom)])
    /\ SetBoundaryTable(count_exon_intron_boundaries(BoundaryTable, cell_barcode,
                            KnownIntrons, chrom, start, end, read_name, mode))
    /\ UNCHANGED <<mode, cell_barcode_file, cell_barcodes_of_interest, junction_counts,
                   junction_totals, cell_barcodes, read_count, supported_junctions,
                   buffered_reads, processed_reads, record, current_pos, output,
                   buffered_names, contribution, streams>>

NextBoundary ==
    \E cell_barcode \in PJBarcodes, chrom \in Chroms, iv \in Intervals, read_name \in PJNames :
        CallBoundary(cell_barcode, chrom, iv[1], iv[2], read_name)

SpecBoundary == Init /\ [][NextBoundary]_vars

-----------------------------------------------------------------------------
(* The record loop fed by one stream of records for each chromosome *)

\* The reads and alignments of the streams: on either chromosome a junction at
\* 150 with both anchors and with a short left anchor.
MergeReads == {r \in Reads : r.qname \in {"R1", "R2"}}

MergeAlignments == {a \in Alignments : a.pos \in {100, 147} /\ Len(a.cigar) = 3
                                          /\ a.cigar[2].len = 80}

MergeRecords ==
    {[MakeRecord(read, aln) EXCEPT !.ref_name = c] :
        read \in MergeReads, aln \in MergeAlignments, c \in Chroms}

\* The records of the chromosome read so far, in order.
StreamOf(chrom) == IF chrom \in DOMAIN streams THEN streams[chrom] ELSE <<>>

\* One iteration of the loop (main.rs:189-328) on the next record of the
\* stream of a chromosome; which stream delivers next is not determined.
MergeRecord(rec) ==
    /\ read_count < MaxRecords
    /\ read_count' = read_count + 1
    /\ record' = Some(rec)
    /\ streams' = MapPut(streams, rec.ref_name, Append(StreamOf(rec.ref_name), rec))
    /\ SetTable(ProcessRecord(Table, rec, mode, cell_barcode_file,
                              cell_barcodes_of_interest))
    /\ buffered_names' =
           NamesAfter(buffered_names, Table,
                      ProcessRecord(Table, rec, mode, cell_barcode_file,
                                    cell_barcodes_of_interest), rec)
    /\ contribution' =
           IF Engaged(rec, mode, cell_barcode_file, cell_barcodes_of_interest)
           THEN CreditRecord(Table, contribution, buffered_names, rec, 1, mode)
           ELSE contribution
    /\ UNCHANGED <<mode, cell_barcode_file, cell_barcodes_of_interest, output, call,
                   boundaryVars>>

NextMerge == \E rec \in MergeRecords : MergeRecord(rec)

SpecMerge == Init /\ [][NextMerge]_vars

-----------------------------------------------------------------------------
(* The program on records whose junctions start at 99, 100 and 150 *)

SortReads == {r \in Reads : r.qname \in {"R1", "R2"}}

\* Both anchors sufficient; the junctions are chr1:99-180, chr1:100-181 and
\* chr1:150-231.
SortAlignments ==
    { [pos |-> 49, cigar |-> <<Op("Match", 50), Op("RefSkip", 80), Op("Match", 50)>>],
      [pos |-> 50, cigar |-> <<Op("Match", 50), Op("RefSkip", 80), Op("Match", 50)>>],
      [pos |-> 100, cigar |-> <<Op("Match", 50), Op("RefSkip", 80), Op("Match", 50)>>] }

SortRecords == {MakeRecord(read, aln) : read \in SortReads, aln \in SortAlignments}

NextSort ==
    \/ \E rec \in SortRecords : ReadRecord(rec)
    \/ \E r \in Runs : WriteOutput(r)

SpecSort == Init /\ [][NextSort]_vars

-----------------------------------------------------------------------------
(* Vocabulary of the claims *)

TotalCount(junction_coords) == TotalOf(junction_counts, junction_totals, junction_coords)

\* The step reads a record.
Reading == read_count' = read_count + 1

\* The record read by the step reaches the walk and has a candidate at key.
CandidateIndices(rec, key) ==
    {i \in DOMAIN rec.cigar :
        /\ Engaged(rec, mode, cell_barcode_file, cell_barcodes_of_interest)
        /\ CandidateAt(rec, i)
        /\ KeyAt(rec, i) = key}

HasCandidate(rec, key) == CandidateIndices(rec, key) # {}

Qualifies(rec, key) == \E i \in CandidateIndices(rec, key) : BothAnchors(rec, i)

\* The history agrees with the tables: the contributions of the reads to a key
\* add up to its count, and every buffer has one name for each entry.
HistoryAgrees ==
    /\ \A key \in DOMAIN junction_totals \cup DOMAIN junction_counts :
          TotalCount(key) =
             SumCounts(contribution, {k \in DOMAIN contribution : k[1] = key})
    /\ \A k \in DOMAIN contribution : TotalCount(k[1]) > 0
    /\ DOMAIN buffered_names = DOMAIN buffered_reads
    /\ \A key \in DOMAIN buffered_reads :
          Len(buffered_names[key]) = Len(buffered_reads[key])

-----------------------------------------------------------------------------
(* The claims *)

\* C1: a junction that has never received a candidate with both anchors
\* sufficient has no entry in the count table, in bulk and in single mode:
\* a key that owns a buffer has no count, and a key without a count gets one
\* only in a step whose record has a candidate with both anchors at that key.
C1_BufferedNeverCounted ==
    /\ [](\A key \in DOMAIN buffered_reads :
             /\ key \notin DOMAIN junction_totals
             /\ key \notin DOMAIN junction_counts)
    /\ [][\A key \in DOMAIN junction_totals' \cup DOMAIN junction_counts' :
             key \notin DOMAIN junction_totals \cup DOMAIN junction_counts
                => /\ Reading
                   /\ Qualifies(record'[1], key)]_vars

\* Witness of C1: a run has written its files while a key still holds two
\* buffered reads, and the files have no row for that key.
C1_Witness ==
    \E key \in DOMAIN buffered_reads :
        /\ Len(buffered_reads[key]) >= 2
        /\ output[1] # None
        /\ TotalCount(key) = 0
        /\ \A n \in DOMAIN output[1][1].features : output[1][1].features[n] # key
        /\ \A n \in DOMAIN output[1][1].junction : output[1][1].junction[n][1] # key

\* The names of a sequence are pairwise distinct.
Distinct(names) ==
    \A i, j \in DOMAIN names : i # j => names[i] # names[j]

\* The step reads a record whose candidate at key has both anchors, while key
\* holds buffered reads with pairwise distinct names, none of them the name of
\* the record.
FlushOfDistinctReads(key) ==
    /\ Reading
    /\ key \in DOMAIN buffered_reads
    /\ Qualifies(record'[1], key)
    /\ Distinct(Append(buffered_names[key], record'[1].qname))

\* C2: when a key holding k >= 1 buffered reads with distinct names receives
\* its first read with both anchors, under a further name, every buffered read
\* and the triggering read are counted once: the count is then k + 1.
C2_FlushCountsEveryRead ==
    [][\A key \in DOMAIN buffered_reads :
          FlushOfDistinctReads(key)
             => TotalCount(key)' = Len(buffered_reads[key]) + 1]_vars

\* What the code does at such a flush: every call of process_junction in the
\* flush is made with the read name of the triggering record, so the first
\* buffered entry is counted and neither the later entries nor the triggering
\* read are: the count is then 1.
C2_FlushCountsOne ==
    [][\A key \in DOMAIN buffered_reads :
          FlushOfDistinctReads(key) => TotalCount(key)' = 1]_vars

\* C3: for every key and every read name, the read contributes at most 1 to
\* the count of the key, also when it was buffered, counted by a flush and
\* then met again at the key.
C3_ReadCountedAtMostOnce ==
    \A k \in DOMAIN contribution : contribution[k] <= 1

-----------------------------------------------------------------------------

\* Exactly one count of the table is one higher after the step, and it is a
\* count of key: the bulk total of key or one per-barcode count of key.
OneCountIncremented(key) ==
    \/ /\ junction_totals' = MapIncr(junction_totals, key)
       /\ junction_counts' = junction_counts
    \/ /\ junction_totals' = junction_totals
       /\ \E b \in {CB1, CB2} :
             junction_counts' =
                MapPut(junction_counts, key, MapIncr(CellCountsOf(junction_counts, key), b))

NoCountChanged ==
    /\ junction_totals' = junction_totals
    /\ junction_counts' = junction_counts

\* The processed set of every key only grows.
ProcessedGrows ==
    \A key \in DOMAIN processed_reads :
        /\ key \in DOMAIN processed_reads'
        /\ processed_reads[key] \subseteq processed_reads'[key]

\* C4 as stated: the first call of process_junction for a (key, read name)
\* records the name under the key and increments exactly one count by 1; every
\* later call with the pair changes neither the counts nor the processed sets;
\* a processed set only grows.
C4_CountOnceAlways ==
    [][call' # None =>
          LET c == call'[1]
          IN  /\ ProcessedGrows
              /\ c.seen => NoCountChanged /\ processed_reads' = processed_reads
              /\ ~c.seen =>
                    /\ processed_reads' =
                          MapPut(processed_reads, c.junction_coords,
                                 ReadsOf(processed_reads, c.junction_coords)
                                    \cup {c.read_name})
                    /\ OneCountIncremented(c.junction_coords)]_vars

\* C4 as amended: as above, but the first call for a pair made in single mode
\* without a barcode records the name and changes no count; in bulk mode the
\* count is the total of the key, in single mode with a barcode it is the
\* count of that barcode under the key.
C4_CountOnceGivenBarcode ==
    [][call' # None =>
          LET c == call'[1]
          IN  /\ ProcessedGrows
              /\ c.seen => NoCountChanged /\ processed_reads' = processed_reads
              /\ ~c.seen =>
                    /\ processed_reads' =
                          MapPut(processed_reads, c.junction_coords,
                                 ReadsOf(processed_reads, c.junction_coords)
                                    \cup {c.read_name})
                    /\ mode = "single" /\ c.cell_barcode = None => NoCountChanged
                    /\ mode = "single" /\ c.cell_barcode # None =>
                          /\ junction_totals' = junction_totals
                          /\ junction_counts' =
                                MapPut(junction_counts, c.junction_coords,
                                       MapIncr(CellCountsOf(junction_counts,
                                                            c.junction_coords),
                                               c.cell_barcode[1]))
                    /\ mode # "single" =>
                          /\ junction_counts' = junction_counts
                          /\ junction_totals' =
                                MapIncr(junction_totals, c.junction_coords)]_vars

\* Witness of C4: in single mode a key has two processed read names and a
\* count of 1 (one first call had a barcode, the other had none), and the last
\* call was a repeated call for a pair of that key.
C4_Witness ==
    /\ mode = "single"
    /\ call # None
    /\ call[1].seen
    /\ Cardinality(ReadsOf(processed_reads, call[1].junction_coords)) = 2
    /\ TotalCount(call[1].junction_coords) = 1

\* C5: a supported key stays supported, and a later candidate at it from a read
\* name that is not in its processed set is counted at once, whatever its
\* anchors: the count of the key (in single mode: of the record's barcode under
\* the key) goes up by 1, the name joins the processed set, and nothing is
\* buffered for the key.
C5_SupportedCountsAtOnce ==
    [][\A key \in supported_junctions :
          /\ key \in supported_junctions'
          /\ key \notin DOMAIN buffered_reads'
          /\ (/\ Reading
              /\ HasCandidate(record'[1], key)
              /\ record'[1].qname \notin ReadsOf(processed_reads, key))
                => /\ TotalCount(key)' = TotalCount(key) + 1
                   /\ record'[1].qname \in ReadsOf(processed_reads', key)
                   /\ mode = "single" =>
                         junction_counts'[key] =
                            MapIncr(CellCountsOf(junction_counts, key),
                                    record'[1].cb[1])]_vars

\* Witness of C5: the second record has a candidate with a short anchor at the
\* key that the first record made supported, and both reads are counted.
C5_Witness ==
    /\ read_count = 2
    /\ record # None
    /\ \E key \in supported_junctions :
          /\ HasCandidate(record[1], key)
          /\ ~Qualifies(record[1], key)
          /\ TotalCount(key) = 2
          /\ key \notin DOMAIN buffered_reads

-----------------------------------------------------------------------------

\* The keys that a record of the walk must have emitted: for every RefSkip of
\* length L within the bounds met at running position p, chromosome:p-(p+L+1).
EmittedKeys(rec) ==
    {FormatJunction(rec.ref_name, PositionBefore(rec, i),
                    PositionBefore(rec, i) + rec.cigar[i].len + 1) :
        i \in {n \in DOMAIN rec.cigar :
                  /\ rec.cigar[n].op = "RefSkip"
                  /\ rec.cigar[n].len >= min_intron_length
                  /\ rec.cigar[n].len <= max_intron_length}}

KnownKeys == supported_junctions \cup DOMAIN buffered_reads

Key_150_231 == <<99, 104, 114, 49, 58, 49, 53, 48, 45, 50, 51, 49>>

Key_250_341 == <<99, 104, 114, 49, 58, 50, 53, 48, 45, 51, 52, 49>>

Key_190_271 == <<99, 104, 114, 49, 58, 49, 57, 48, 45, 50, 55, 49>>

Scenario_M50_N80_M50 ==
    [pos |-> 100, cigar |-> <<Op("Match", 50), Op("RefSkip", 80), Op("Match", 50)>>]

Scenario_TwoIntrons ==
    [pos |-> 100, cigar |-> <<Op("Match", 50), Op("RefSkip", 80), Op("Match", 20),
                              Op("RefSkip", 90), Op("Match", 50)>>]

Scenario_IntronAtEnd ==
    [pos |-> 100, cigar |-> <<Op("Match", 50), Op("RefSkip", 80)>>]

IsAlignment(rec, aln) == rec.pos = aln.pos /\ rec.cigar = aln.cigar

\* C6: a RefSkip of length L within the bounds met at running position p emits
\* the key chromosome:p-(p+L+1) and leaves the running position at p + L: the
\* keys known after the first record are the emitted keys of that record; the
\* record [Match 50, RefSkip 80, Match 50] at 100 gives in bulk mode the one
\* supported key chr1:150-231 with count 1; a second intron after 20 more
\* matched bases starts at 250, not 251; and a record that ends with the
\* intron ends at position 230.
C6_JunctionCoordinates ==
    (record # None /\ Engaged(record[1], mode, cell_barcode_file, cell_barcodes_of_interest))
       => /\ EmittedKeys(record[1]) \subseteq KnownKeys
          /\ read_count = 1 => KnownKeys = EmittedKeys(record[1])
          /\ (read_count = 1 /\ mode = "bulk" /\ IsAlignment(record[1], Scenario_M50_N80_M50))
                => /\ supported_junctions = {Key_150_231}
                   /\ junction_totals = (Key_150_231 :> 1)
                   /\ buffered_reads = EmptyMap
          /\ (read_count = 1 /\ IsAlignment(record[1], Scenario_TwoIntrons))
                => supported_junctions = {Key_150_231, Key_250_341}
          /\ IsAlignment(record[1], Scenario_IntronAtEnd) => current_pos = 230

\* Witness of C6: the scenario record was read in bulk mode, and so was, in
\* another state, the record with two introns; the first is the witness.
C6_Witness ==
    /\ mode = "bulk"
    /\ read_count = 1
    /\ record # None
    /\ IsAlignment(record[1], Scenario_M50_N80_M50)
    /\ TotalCount(Key_150_231) = 1

\* What a key owns in the tables.
KeyState(sj, br, pr, jc, jt, key) ==
    <<key \in sj,
      IF key \in DOMAIN br THEN br[key] ELSE <<>>,
      ReadsOf(pr, key),
      CellCountsOf(jc, key),
      IF key \in DOMAIN jt THEN jt[key] ELSE 0>>

AllKeys(sj, br, pr, jc, jt) ==
    sj \cup DOMAIN br \cup DOMAIN pr \cup DOMAIN jc \cup DOMAIN jt

\* C7: a RefSkip with L < min_intron_length or L > max_intron_length emits no
\* candidate: a step changes the supported set, buffer, processed set and
\* counts of no key but the keys of the RefSkips of its record that are within
\* the bounds; it still advances the running position by L, so the position
\* at the end of the record is its start plus the lengths of all Match, Ins,
\* Del and RefSkip operations; and a RefSkip of length min_intron_length or
\* max_intron_length of a record that reaches the walk is a candidate.
C7_IntronLengthBounds ==
    [][Reading =>
          LET rec == record'[1]
          IN  /\ \A key \in AllKeys(supported_junctions, buffered_reads, processed_reads,
                                    junction_counts, junction_totals)
                            \cup AllKeys(supported_junctions', buffered_reads',
                                         processed_reads', junction_counts',
                                         junction_totals') :
                    KeyState(supported_junctions, buffered_reads, processed_reads,
                             junction_counts, junction_totals, key)
                       # KeyState(supported_junctions', buffered_reads', processed_reads',
                                  junction_counts', junction_totals', key)
                       => key \in EmittedKeys(rec)
              /\ \A i \in DOMAIN rec.cigar :
                    (/\ rec.cigar[i].op = "RefSkip"
                     /\ rec.cigar[i].len \in {min_intron_length, max_intron_length}
                     /\ Engaged(rec, mode, cell_barcode_file, cell_barcodes_of_interest))
                       => FormatJunction(rec.ref_name, PositionBefore(rec, i),
                                         PositionBefore(rec, i) + rec.cigar[i].len + 1)
                             \in supported_junctions' \cup DOMAIN buffered_reads'
              /\ Engaged(rec, mode, cell_barcode_file, cell_barcodes_of_interest)
                    => current_pos' = PositionBefore(rec, Len(rec.cigar) + 1)]_vars

Scenario_ShortIntronFirst ==
    [pos |-> 100, cigar |-> <<Op("Match", 50), Op("RefSkip", 30), Op("Match", 10),
                              Op("RefSkip", 80), Op("Match", 50)>>]

\* Witness of C7: the first record has an intron of 30 bases, below the
\* minimum, before one of 80: its only key is chr1:190-271, and it ends at 320.
C7_Witness ==
    /\ read_count = 1
    /\ record # None
    /\ IsAlignment(record[1], Scenario_ShortIntronFirst)
    /\ KnownKeys = {Key_190_271}
    /\ current_pos = 320

-----------------------------------------------------------------------------

\* The files a run has written.
Written == {output[r][1] : r \in {x \in Runs : output[x] # None}}

\* The 1-based index of x in the list s.
Rank(s, x) == CHOOSE n \in DOMAIN s : s[n] = x

\* C8: in single mode every data line `row col count` of the matrix has row
\* the 1-based index of its feature in the sorted feature list and col the
\* 1-based index of its barcode in the sorted barcode list, within the
\* dimensions the header gives.
C8_MatrixIndices ==
    \A out \in Written :
        \A n \in DOMAIN out.matrix :
            /\ out.matrix[n][1] = Rank(out.features, out.tsv[n][1])
            /\ out.matrix[n][2] = Rank(out.barcodes, out.tsv[n][2])
            /\ 1 <= out.matrix[n][1] /\ out.matrix[n][1] <= out.header[1]
            /\ 1 <= out.matrix[n][2] /\ out.matrix[n][2] <= out.header[2]

\* The pairs (feature, barcode) with a positive count.
PositivePairs ==
    {p \in UNION {{<<f, b>> : b \in DOMAIN junction_counts[f]} : f \in DOMAIN junction_counts} :
        junction_counts[p[1]][p[2]] > 0}

\* C9: in single mode the nonzero_count of the header is the number of
\* (feature, barcode) pairs with a positive count and the number of data lines
\* written; every stored count is at least 1, every barcode with a count is in
\* the barcode set, and every counted pair has its line with its count.
C9_NonZeroCount ==
    /\ \A f \in DOMAIN junction_counts :
          \A b \in DOMAIN junction_counts[f] :
              /\ junction_counts[f][b] >= 1
              /\ b \in cell_barcodes
    /\ \A out \in Written :
          mode = "single" =>
             /\ out.header[3] = Cardinality(PositivePairs)
             /\ out.header[3] = Len(out.matrix)
             /\ Len(out.tsv) = Len(out.matrix)
             /\ \A p \in PositivePairs :
                   \E n \in DOMAIN out.tsv :
                       /\ out.tsv[n] = <<p[1], p[2], junction_counts[p[1]][p[2]]>>
                       /\ out.matrix[n][3] = junction_counts[p[1]][p[2]]

\* Witness of C9: CB1 and CB2 have one count each on the one feature, and the
\* matrix written has nonzero_count 2 and two data lines.
C9_Witness ==
    /\ mode = "single"
    /\ output[1] # None
    /\ DOMAIN junction_counts = {Key_150_231}
    /\ junction_counts[Key_150_231] = (CB1 :> 1) @@ (CB2 :> 1)
    /\ output[1][1].header = <<1, 2, 2>>
    /\ Len(output[1][1].matrix) = 2
    /\ output[1][1].barcodes = <<CB1, CB2>>

\* C10: two runs on the same records and configuration write the same files,
\* line for line, the data lines of the matrix and of the flat table in the
\* same order.
C10_RunsAgree ==
    \A r1, r2 \in Runs :
        (output[r1] # None /\ output[r2] # None) => output[r1] = output[r2]

-----------------------------------------------------------------------------
(* Boundary counting: vocabulary *)

\* The count of barcode b at key in a per-barcode table, 0 when there is none.
CountIn(counts, key, b) ==
    IF key \in DOMAIN counts /\ b \in DOMAIN counts[key] THEN counts[key][b] ELSE 0

\* The total at key in a totals table, 0 when there is none.
TotalAt(totals, key) ==
    IF key \in DOMAIN totals THEN totals[key] ELSE 0

BoundaryKeys == {FormatJunction(x[1], x[2], x[3]) : x \in KnownIntrons}

BoundaryBarcodes == {CB1, CB2}

\* The step is a call of count_exon_intron_boundaries.
Calling == boundary_calls' = boundary_calls + 1

\* No left or right counter differs between the two states of the step.
CountersUnchanged ==
    UNCHANGED <<left_counts, right_counts, left_totals, right_totals>>

\* 1 when the interval start..end of call c on chromosome c.chrom holds the
\* point of an intron on chromosome chrom, end points included; else 0.
Hit(c, chrom, point) ==
    IF c.chrom = chrom /\ c.start <= point /\ point <= c.end THEN 1 ELSE 0

\* The step added call c to the counters as a first call does: one to the
\* left (right) counter of every known intron of the chromosome whose start
\* (end) lies in the interval, for the barcode of the call in single mode and
\* for the total in bulk mode, and nothing to any other counter.
CountedAsNew(c) ==
    /\ DOMAIN left_counts' \cup DOMAIN right_counts' \cup
       DOMAIN left_totals' \cup DOMAIN right_totals' \subseteq BoundaryKeys
    /\ \A x \in KnownIntrons :
          LET key == FormatJunction(x[1], x[2], x[3])
              l == Hit(c, x[1], x[2])
              r == Hit(c, x[1], x[3])
          IN  IF mode = "single"
              THEN /\ \A b \in BoundaryBarcodes :
                         LET mine == IF c.cell_barcode = Some(b) THEN 1 ELSE 0
                         IN  /\ CountIn(left_counts', key, b) =
                                    CountIn(left_counts, key, b) + mine * l
                             /\ CountIn(right_counts', key, b) =
                                    CountIn(right_counts, key, b) + mine * r
                   /\ TotalAt(left_totals', key) = TotalAt(left_totals, key)
                   /\ TotalAt(right_totals', key) = TotalAt(right_totals, key)
              ELSE /\ TotalAt(left_totals', key) = TotalAt(left_totals, key) + l
                   /\ TotalAt(right_totals', key) = TotalAt(right_totals, key) + r
                   /\ \A b \in BoundaryBarcodes :
                         /\ CountIn(left_counts', key, b) = CountIn(left_counts, key, b)
                         /\ CountIn(right_counts', key, b) = CountIn(right_counts, key, b)

\* Some counter of the table is positive.
SomeCounted ==
    DOMAIN left_counts \cup DOMAIN right_counts \cup
    DOMAIN left_totals \cup DOMAIN right_totals # {}

-----------------------------------------------------------------------------
(* C11 *)

\* C11: boundary deduplication is keyed by (chromosome, read name) only. A
\* call whose read name is already in the processed set of its chromosome
\* changes no left or right counter and no processed set, whatever its
\* interval and barcode and whether or not the first call straddled a
\* boundary; a call whose read name is in the processed set of another
\* chromosome only is counted as a call of a read never seen: the name joins
\* the set of the chromosome and the counters grow as for a new read.
C11_DedupPerChromosome ==
    [][Calling =>
         LET c == call'[1]
             before == BoundaryReadsOf(processed_boundary_reads, c.chrom)
         IN  /\ c.seen = (c.read_name \in before)
             /\ c.seen =>
                   /\ CountersUnchanged
                   /\ UNCHANGED processed_boundary_reads
             /\ ~c.seen =>
                   /\ CountedAsNew(c)
                   /\ BoundaryReadsOf(processed_boundary_reads', c.chrom) =
                          before \cup {c.read_name}
                   /\ \A other \in Chroms \ {c.chrom} :
                          BoundaryReadsOf(processed_boundary_reads', other) =
                              BoundaryReadsOf(processed_boundary_reads, other)]_vars

\* A read name was called on chr1 with an interval that straddles nothing, was
\* called again on chr1 over a boundary and skipped, and was counted on chr2.
C11_Witness ==
    /\ call # None
    /\ call[1].seen
    /\ call[1].chrom = chr1
    /\ Hit(call[1], chr1, 150) = 1
    /\ call[1].read_name \in BoundaryReadsOf(processed_boundary_reads, chr2)
    /\ \A key \in BoundaryKeys \ {FormatJunction(chr2, 150, 230)} :
          /\ key \notin DOMAIN left_counts \cup DOMAIN right_counts
          /\ key \notin DOMAIN left_totals \cup DOMAIN right_totals
    /\ SomeCounted
    /\ BoundaryReadsOf(processed_boundary_reads, chr1) = {call[1].read_name}
    /\ BoundaryReadsOf(processed_boundary_reads, chr2) = {call[1].read_name}

-----------------------------------------------------------------------------
(* C12 *)

\* The run is in single mode with a barcode list that is not empty.
AllowListActive ==
    /\ mode = "single"
    /\ cell_barcode_file # None
    /\ cell_barcodes_of_interest # {}

\* Every barcode of the barcode set, of the buffers and of the count table is
\* in the list.
AllowListed ==
    /\ cell_barcodes \subseteq cell_barcodes_of_interest
    /\ \A key \in DOMAIN buffered_reads : \A i \in DOMAIN buffered_reads[key] :
          /\ buffered_reads[key][i][1] # None
          /\ buffered_reads[key][i][1][1] \in cell_barcodes_of_interest
    /\ \A key \in DOMAIN junction_counts :
          DOMAIN junction_counts[key] \subseteq cell_barcodes_of_interest

\* C12: in single mode with a barcode list that is not empty, a record whose
\* barcode is not in the list changes neither the barcode set, the supported
\* set, the buffers, the processed sets nor the counts; and in every reachable
\* state every barcode of the barcode set, of a buffer and of the count table
\* is in the list.
C12_AllowListDrops ==
    /\ [](AllowListActive => AllowListed)
    /\ [][(Reading /\ AllowListActive /\ record'[1].cb # None
             /\ record'[1].cb[1] \notin cell_barcodes_of_interest)
            => UNCHANGED <<cell_barcodes, supported_junctions, buffered_reads,
                           processed_reads, junction_counts, junction_totals>>]_vars

\* With the list {CB1}, a read of CB1 is buffered at chr1:150-231 and the read
\* of CB2 that follows has both anchors there: it is dropped, the junction
\* stays unsupported and the buffer stays.
C12_Witness ==
    /\ AllowListActive
    /\ record # None
    /\ record[1].cb = Some(CB2)
    /\ IsAlignment(record[1], Scenario_M50_N80_M50)
    /\ supported_junctions = {}
    /\ DOMAIN buffered_reads = {Key_150_231}
    /\ Len(buffered_reads[Key_150_231]) = 1
    /\ cell_barcodes = {CB1}

-----------------------------------------------------------------------------
(* C13 *)

\* The largest number of loci a counted read may map to, as the
\* specification gives it; main.rs declares no such option (main.rs:64-116).
max_loci == 1

\* C13: in bulk and in single mode, a record whose NH tag exceeds max_loci is
\* dropped before the junction engine: reading it adds nothing to a buffer,
\* makes no junction supported and changes no count. (A record without the
\* tag is not filtered, which puts no condition on the step.)
C13_MultiMappedDropped ==
    [][(Reading /\ record'[1].nh # None /\ record'[1].nh[1] > max_loci)
          => UNCHANGED <<buffered_reads, supported_junctions, junction_counts,
                         junction_totals>>]_vars

-----------------------------------------------------------------------------
(* C14 *)

\* What the operation adds to the running position by the statement of C14.
StatedAdvance(c) ==
    IF c.op \in {"Match", "Ins", "Del", "Equal", "Diff", "RefSkip"} THEN c.len ELSE 0

RECURSIVE StatedPositionBefore(_, _)
\* The record's start plus the stated advance of the operations before index i.
StatedPositionBefore(rec, i) ==
    IF i <= 1 THEN rec.pos
    ELSE StatedPositionBefore(rec, i - 1) + StatedAdvance(rec.cigar[i - 1])

\* The keys of the candidates of rec when the position advances as stated.
StatedKeys(rec) ==
    {FormatJunction(rec.ref_name, StatedPositionBefore(rec, i),
                    StatedPositionBefore(rec, i) + rec.cigar[i].len + 1) :
        i \in {n \in DOMAIN rec.cigar : CandidateAt(rec, n)}}

\* C14: in the walk of a record each Match, Insertion, Deletion, Equal, Diff
\* and ReferenceSkip advances the running position by its length and a
\* SoftClip leaves it alone: the keys known after the first record start at
\* the record's position plus the lengths of all such operations before the
\* ReferenceSkip, and the walk ends at the position plus all of them.
C14_PositionBookkeeping ==
    (read_count = 1 /\ record # None
        /\ Engaged(record[1], mode, cell_barcode_file, cell_barcodes_of_interest))
       => /\ KnownKeys = StatedKeys(record[1])
          /\ current_pos = StatedPositionBefore(record[1], Len(record[1].cigar) + 1)

-----------------------------------------------------------------------------
(* C15 *)

\* The operations a run of anchor operations may hold.
RunOps == {"Match", "Equal", "Diff", "RefSkip"}

\* The indices of the maximal run of RunOps operations right before index i.
LeftRun(cigars, i) ==
    {j \in 1..(i - 1) : \A k \in j..(i - 1) : cigars[k].op \in RunOps}

\* The indices of the maximal run of RunOps operations right after index i.
RightRun(cigars, i) ==
    {j \in (i + 1)..Len(cigars) : \A k \in (i + 1)..j : cigars[k].op \in RunOps}

RECURSIVE AnchorSum(_, _)
\* The Match, Equal and Diff lengths of the operations at the indices S.
AnchorSum(cigars, S) ==
    IF S = {} THEN 0
    ELSE LET j == CHOOSE x \in S : TRUE
         IN  (IF cigars[j].op \in AnchorOps THEN cigars[j].len ELSE 0)
             + AnchorSum(cigars, S \ {j})

LeftRunReaches(cigars, i) == AnchorSum(cigars, LeftRun(cigars, i)) >= min_anchor_length

RightRunReaches(cigars, i) == AnchorSum(cigars, RightRun(cigars, i)) >= min_anchor_length

\* C15: for a candidate ReferenceSkip at index i, has_left_anchor is true
\* exactly when the Match, Equal and Diff lengths over the maximal run of
\* Match, Equal, Diff and ReferenceSkip operations right before i reach
\* min_anchor_length (a ReferenceSkip in the run is crossed and adds nothing;
\* an Insertion, a Deletion, a SoftClip or the front of the list ends the
\* run), and has_right_anchor likewise over the operations after i; the
\* junctions the first record makes supported are those of its candidates
\* whose two runs reach the threshold.
C15_AnchorRuns ==
    (record # None /\ Engaged(record[1], mode, cell_barcode_file, cell_barcodes_of_interest))
       => LET rec == record[1]
              cands == {i \in DOMAIN rec.cigar : CandidateAt(rec, i)}
          IN  /\ \A i \in cands :
                    /\ has_left_anchor(rec.cigar, i) = LeftRunReaches(rec.cigar, i)
                    /\ has_right_anchor(rec.cigar, i) = RightRunReaches(rec.cigar, i)
              /\ read_count = 1 =>
                    supported_junctions =
                        {KeyAt(rec, i) : i \in {n \in cands :
                                                   /\ LeftRunReaches(rec.cigar, n)
                                                   /\ RightRunReaches(rec.cigar, n)}}

\* The ReferenceSkip of 80 has 5 matched bases on its left, then a short
\* ReferenceSkip, then 5 more: the anchor crosses the short one, reaches 10
\* and the junction at 140 is supported.
C15_Witness ==
    /\ read_count = 1
    /\ record # None
    /\ record[1].cigar = <<Op("Match", 5), Op("RefSkip", 30), Op("Match", 5),
                           Op("RefSkip", 80), Op("Match", 4), Op("RefSkip", 500001),
                           Op("Match", 4)>>
    /\ AnchorSum(record[1].cigar, LeftRun(record[1].cigar, 4)) = 10
    /\ supported_junctions = {FormatJunction(chr1, 140, 221)}

-----------------------------------------------------------------------------
(* C16 *)

\* buffered_reads.get(key), an empty list when the key is absent.
BufferOf(br, key) == IF key \in DOMAIN br THEN br[key] ELSE <<>>

\* The buffer entry of the candidate of rec at key: the barcode of the record
\* and the running position at the ReferenceSkip.
EntryOf(rec, key) ==
    LET i == CHOOSE n \in CandidateIndices(rec, key) : TRUE
    IN  <<CellBarcodeOf(rec, mode), PositionBefore(rec, i)>>

\* C16: while a coordinate is not supported, each candidate at it that lacks
\* a sufficient anchor on a side adds exactly one (barcode, position) entry at
\* the end of the buffer of the coordinate and changes neither its count nor
\* its processed set; a step without a candidate at the coordinate leaves its
\* buffer alone, so that the buffer of an unsupported coordinate is the
\* sequence of its candidate events so far, in arrival order.
C16_BufferAppends ==
    [][\A key \in DOMAIN buffered_reads \cup DOMAIN buffered_reads'
                    \cup (IF Reading THEN EmittedKeys(record'[1]) ELSE {}) :
          key \notin supported_junctions' =>
             /\ BufferOf(buffered_reads', key) =
                   IF Reading /\ HasCandidate(record'[1], key)
                   THEN Append(BufferOf(buffered_reads, key), EntryOf(record'[1], key))
                   ELSE BufferOf(buffered_reads, key)
             /\ TotalOf(junction_counts', junction_totals', key) = TotalCount(key)
             /\ ReadsOf(processed_reads', key) = ReadsOf(processed_reads, key)]_vars

\* In single mode a read of CB1 and then a read of CB2 had a candidate at
\* chr1:150-231 with 3 bases on the left: the buffer holds both, in that
\* order, and nothing is counted or processed.
C16_Witness ==
    /\ mode = "single"
    /\ record # None
    /\ record[1].cb = Some(CB2)
    /\ supported_junctions = {}
    /\ DOMAIN buffered_reads = {Key_150_231}
    /\ buffered_reads[Key_150_231] = <<<<Some(CB1), 150>>, <<Some(CB2), 150>>>>
    /\ junction_counts = EmptyMap
    /\ processed_reads = EmptyMap

-----------------------------------------------------------------------------
(* C17 *)

\* The barcode b passes the barcode list: no list was given, the list is
\* empty, or b is in it.
PassesAllowList(b) ==
    \/ cell_barcode_file = None
    \/ cell_barcodes_of_interest = {}
    \/ b \in cell_barcodes_of_interest

\* The barcodes a record adds to the barcode set.
RetainedBarcode(rec) ==
    IF rec.cb # None /\ PassesAllowList(rec.cb[1]) THEN {rec.cb[1]} ELSE {}

\* C17: in single mode the barcode set after any sequence of records is the
\* set of the barcodes of the records that carry a barcode and pass the
\* barcode list: it is empty before the first record, every record read adds
\* its barcode when it carries one that passes, with or without a
\* ReferenceSkip and whether or not anything is counted, and no other step
\* changes the set.
C17_BarcodeUniverse ==
    /\ [](read_count = 0 => cell_barcodes = {})
    /\ [][mode = "single" =>
             cell_barcodes' = cell_barcodes \cup
                 (IF Reading THEN RetainedBarcode(record'[1]) ELSE {})]_vars

\* Two records without a ReferenceSkip were read in single mode: their
\* barcodes are in the barcode set and no feature has a count.
C17_Witness ==
    /\ mode = "single"
    /\ record # None
    /\ record[1].cigar = <<Op("Match", 100)>>
    /\ cell_barcodes = {CB1, CB2}
    /\ junction_counts = EmptyMap
    /\ buffered_reads = EmptyMap
    /\ supported_junctions = {}

-----------------------------------------------------------------------------
(* C18 *)

\* C18: in single mode a record whose barcode tag is missing or is no string
\* changes no state: no count, no buffer, no supported junction (even when
\* both of its anchors are sufficient), no barcode and no processed set; the
\* record is consumed and the loop goes on.
C18_NoBarcodeNoOp ==
    [][(Reading /\ mode = "single" /\ record'[1].cb = None)
          => UNCHANGED <<junction_counts, junction_totals, buffered_reads,
                         supported_junctions, cell_barcodes, processed_reads>>]_vars

\* In single mode a read of CB1 made chr1:150-231 supported; the third record
\* is the read without a barcode, with both anchors at chr1:150-231: the
\* tables hold the first read only.
C18_Witness ==
    /\ mode = "single"
    /\ read_count = 3
    /\ record # None
    /\ record[1].cb = None
    /\ IsAlignment(record[1], Scenario_M50_N80_M50)
    /\ supported_junctions = {Key_150_231}
    /\ junction_counts = (Key_150_231 :> (CB1 :> 1))
    /\ buffered_reads = EmptyMap
    /\ cell_barcodes = {CB1}
    /\ processed_reads = (Key_150_231 :> {"R1"})

-----------------------------------------------------------------------------
(* C19 *)

\* The tables before the first record.
EmptyTable == TableOf(EmptyMap, EmptyMap, {}, {}, EmptyMap, EmptyMap, 0)

RECURSIVE ProcessAll(_, _)
\* The tables after the loop has run over the records recs, in order.
ProcessAll(st, recs) ==
    IF recs = <<>> THEN st
    ELSE ProcessAll(ProcessRecord(st, Head(recs), mode, cell_barcode_file,
                                  cell_barcodes_of_interest),
                    Tail(recs))

\* The two tables have the same supported set, buffers, processed sets,
\* counts and barcode set.
SameTables(a, b) ==
    /\ a.supported_junctions = b.supported_junctions
    /\ a.buffered_reads = b.buffered_reads
    /\ a.processed_reads = b.processed_reads
    /\ a.junction_counts = b.junction_counts
    /\ a.junction_totals = b.junction_totals
    /\ a.cell_barcodes = b.cell_barcodes

\* The keys that own something in the tables before or after the step.
KeysOfStep ==
    AllKeys(supported_junctions, buffered_reads, processed_reads,
            junction_counts, junction_totals)
    \cup AllKeys(supported_junctions', buffered_reads', processed_reads',
                 junction_counts', junction_totals')

\* C19: the records of the chromosomes, taken in any interleaving that keeps
\* the order within each chromosome, leave the same supported set, buffers,
\* processed sets, counts and barcode set as the same records taken
\* chromosome after chromosome, in either order of the chromosomes; and a
\* step changes the supported flag, buffer, processed set and counts of no
\* coordinate but those of the candidates of its record.
C19_InterleavingAgrees ==
    /\ [](/\ SameTables(Table, ProcessAll(EmptyTable, StreamOf(chr1) \o StreamOf(chr2)))
          /\ SameTables(Table, ProcessAll(EmptyTable, StreamOf(chr2) \o StreamOf(chr1))))
    /\ [][Reading =>
             \A key \in KeysOfStep \ EmittedKeys(record'[1]) :
                KeyState(supported_junctions', buffered_reads', processed_reads',
                         junction_counts', junction_totals', key) =
                KeyState(supported_junctions, buffered_reads, processed_reads,
                         junction_counts, junction_totals, key)]_vars

\* A record of chr2 was read between two records of chr1, in single mode: the
\* junction at 150 is supported on one chromosome and buffered on the other.
C19_Witness ==
    /\ mode = "single"
    /\ read_count = 3
    /\ Len(StreamOf(chr1)) = 2
    /\ Len(StreamOf(chr2)) = 1
    /\ record = Some(StreamOf(chr1)[2])
    /\ supported_junctions = {FormatJunction(chr1, 150, 231)}
    /\ DOMAIN buffered_reads = {FormatJunction(chr2, 150, 231)}
    /\ junction_counts # EmptyMap
    /\ buffered_names = (FormatJunction(chr2, 150, 231) :> <<"R2">>)
    /\ contribution = (<<FormatJunction(chr1, 150, 231), "R2">> :> 1)

-----------------------------------------------------------------------------
(* C20 *)

\* The four counters of the key did not change in the step.
KeyCountersUnchanged(key) ==
    /\ CellCountsOf(left_counts', key) = CellCountsOf(left_counts, key)
    /\ CellCountsOf(right_counts', key) = CellCountsOf(right_counts, key)
    /\ TotalAt(left_totals', key) = TotalAt(left_totals, key)
    /\ TotalAt(right_totals', key) = TotalAt(right_totals, key)

-----------------------------------------------------------------------------
(* C21 *)

\* The index of the first byte b in the string s.
FirstIndex(s, b) == CHOOSE i \in DOMAIN s : s[i] = b /\ \A j \in 1..(i - 1) : s[j] # b

RECURSIVE ParseInt(_)
\* The number a string of decimal digits stands for.
ParseInt(ds) ==
    IF ds = <<>> THEN 0
    ELSE 10 * ParseInt(SubSeq(ds, 1, Len(ds) - 1)) + (ds[Len(ds)] - 48)

\* The triple <<chromosome, start, end>> of a key chromosome:start-end.
TripleOf(key) ==
    LET colon == FirstIndex(key, 58)
        rest == SubSeq(key, colon + 1, Len(key))
        dash == FirstIndex(rest, 45)
    IN  <<SubSeq(key, 1, colon - 1),
          ParseInt(SubSeq(rest, 1, dash - 1)),
          ParseInt(SubSeq(rest, dash + 1, Len(rest)))>>

\* The order of the triples: by chromosome, then by start and by end as
\* integers.
TripleLess(a, b) ==
    \/ StrLess(a[1], b[1])
    \/ a[1] = b[1] /\ a[2] < b[2]
    \/ a[1] = b[1] /\ a[2] = b[2] /\ a[3] < b[3]

\* C21: the bulk output has exactly one row for every coordinate with a
\* count, with its total, and the rows are in the order of the triples
\* (chromosome, start, end), start and end compared as integers: chr1:99-180
\* comes before chr1:100-181.
C21_BulkRowOrder ==
    mode = "bulk" =>
       \A out \in Written :
          /\ Len(out.junction) = Cardinality(DOMAIN junction_totals)
          /\ {out.junction[n][1] : n \in DOMAIN out.junction} = DOMAIN junction_totals
          /\ \A n \in DOMAIN out.junction :
                out.junction[n][2] = junction_totals[out.junction[n][1]]
          /\ \A n, m \in DOMAIN out.junction :
                n < m => TripleLess(TripleOf(out.junction[n][1]),
                                    TripleOf(out.junction[m][1]))

\* What the program writes: the rows are in the order of the keys as strings.
C21_RowsInStringOrder ==
    mode = "bulk" =>
       \A out \in Written :
          /\ Len(out.junction) = Cardinality(DOMAIN junction_totals)
          /\ {out.junction[n][1] : n \in DOMAIN out.junction} = DOMAIN junction_totals
          /\ \A n \in DOMAIN out.junction :
                out.junction[n][2] = junction_totals[out.junction[n][1]]
          /\ \A n, m \in DOMAIN out.junction :
                n < m => StrLess(out.junction[n][1], out.junction[m][1])

-----------------------------------------------------------------------------
(* C22 *)

\* C22: in every reachable state no coordinate is in the supported set and
\* owns a buffer, and every buffer that exists has an entry: the buffer of a
\* coordinate is taken out when the coordinate becomes supported, and nothing
\* is buffered for a supported coordinate.
C22_SupportedHasNoBuffer ==
    /\ supported_junctions \cap DOMAIN buffered_reads = {}
    /\ \A key \in DOMAIN buffered_reads : buffered_reads[key] # <<>>

\* In single mode a read of CB1 was buffered at chr1:150-231, a read of CB2
\* with both anchors made the coordinate supported and flushed the buffer,
\* and a third read with a short anchor came afterwards: it is counted, and
\* the coordinate has no buffer.
C22_Witness ==
    /\ mode = "single"
    /\ read_count = 3
    /\ record # None
    /\ record[1].qname = "R3"
    /\ record[1].pos = 147
    /\ supported_junctions = {Key_150_231}
    /\ buffered_reads = EmptyMap
    /\ processed_reads = (Key_150_231 :> {"R2", "R3"})
    /\ junction_counts = (Key_150_231 :> (CB1 :> 2))

-----------------------------------------------------------------------------
(* C23 *)

\* C23: in every reachable state of the program the total count of every
\* coordinate (its bulk total, or the sum of its counts over the barcodes in
\* single mode) is the number of read names in its processed set, and a
\* coordinate with a read name in its processed set is in the supported set.
C23_CountIsProcessedSize ==
    \A key \in AllKeys(supported_junctions, buffered_reads, processed_reads,
                       junction_counts, junction_totals) :
        /\ TotalCount(key) = Cardinality(ReadsOf(processed_reads, key))
        /\ ReadsOf(processed_reads, key) # {} => key \in supported_junctions

\* In bulk mode a read R1 or R2 was buffered at chr1:150-231 and R3 came as
\* the third record with both anchors: the flush counted the buffered read
\* under the name R3 and R3 itself was skipped, which leaves the total 1 and
\* the one name R3 in the processed set.
C23_Witness ==
    /\ mode = "bulk"
    /\ read_count = 3
    /\ record # None
    /\ record[1].qname = "R3"
    /\ IsAlignment(record[1], Scenario_M50_N80_M50)
    /\ supported_junctions = {Key_150_231}
    /\ junction_totals = (Key_150_231 :> 1)
    /\ processed_reads = (Key_150_231 :> {"R3"})
    /\ DOMAIN contribution = {<<Key_150_231, "R1">>} \/ DOMAIN contribution = {<<Key_150_231, "R2">>}

=============================================================================
